---- MODULE Spec2Model ----
(***************************************************************************)
(* DMX to RNBO OSC bridge (presence_sensor.py).                            *)
(*                                                                         *)
(* Three objects are modelled:                                             *)
(*   EnttecDMXReceiver  the serial framing decoder and channel extractor   *)
(*   RNBOConnection     OSCQuery discovery, tree search and the OSC sender *)
(*   DMXToOSCBridge     setup (retry loop), the poll loop and shutdown     *)
(*                                                                         *)
(* Python's Optional[T] is a sequence: <<>> is None and <<v>> is the value *)
(* v.  The serial input is a sequence of bytes 0..255 in which GAP marks a *)
(* pause longer than the port's read timeout; the end of the sequence is a *)
(* pause that never ends.                                                  *)
(***************************************************************************)
EXTENDS Integers, Sequences, FiniteSets, TLC

VARIABLES
    \* EnttecDMXReceiver
    serial,            \* "none" (never opened), "open", "closed"
    stream,            \* bytes (and GAPs) the serial port has still to deliver
    \* harnesses of the receiver and of the connection: the calls made so far
    input,             \* how the stream of the harness was built
    calls,             \* sequence of [op, arg, after, msg, value, presence];
                       \* in the connection harness [op, bound, resolves,
                       \* url, status, result, raised, value, path, emitted]
    \* harness of RNBOConnection's tree search
    tree,              \* the JSON tree the OSCQuery server holds
    lookup,            \* None, or the lookup made: Some([op, paths, status,
                       \* path, val]) in the harness, Some([fetched, path])
                       \* in setup()
    \* RNBOConnection
    osc_client,        \* None, or Some(address the UDP client is bound to)
    ip_address,        \* None, or Some(address)
    oscquery_url,      \* None, or Some(url)
    \* DMXToOSCBridge
    running,           \* self.running
    current_presence,  \* self.current_presence
    param_path,        \* self.param_path
    \* control: where main() is, and the locals of setup() and run()
    pc,
    retry_count,       \* setup's retry_count; 0 when setup() has returned
    presence,          \* run's presence, the value get_presence returned
    exit_code,         \* None while the process runs, then Some(status)
    pending,           \* None, or Some(the exception that propagates uncaught)
    \* history (not program state)
    sent,              \* the OSC messages sent, in order: [path, value]
    connect_calls,     \* calls of dmx.connect() that have returned
    iterations,        \* iterations of the poll loop begun so far
    cycle_start,       \* at the start of the iteration: [held, nsent]
    cycles,            \* the completed iterations: [read, held, msgs]
    interrupted        \* a KeyboardInterrupt has arrived in the try block

receiverVars == <<serial, stream>>
receiverHarness == <<input, calls>>
resolverVars == <<tree, lookup>>
rnboVars == <<osc_client, ip_address, oscquery_url>>
bridgeVars == <<running, current_presence, param_path>>
controlVars == <<pc, retry_count, presence, exit_code, pending>>
historyVars == <<sent, connect_calls, iterations, cycle_start, cycles,
                 interrupted>>
programVars == <<rnboVars, bridgeVars, controlVars, historyVars>>

vars == <<receiverVars, receiverHarness, resolverVars, programVars>>

----------------------------------------------------------------------------
\* Protocol constants (presence_sensor.py lines 59-67)

ENTTEC_START_DELIMITER == 126
ENTTEC_END_DELIMITER == 231
ENTTEC_LABEL_DMX_RECEIVED == 5
DMX_PRESENCE_CHANNEL == 1

\* A pause on the serial line longer than the read timeout.
GAP == -1

None == <<>>
Some(v) == <<v>>

----------------------------------------------------------------------------
\* Bounds of the model

\* longest payload enumerated byte by byte
MaxPayload == 3
\* highest DMX channel the harness asks for
MaxChannel == 2
\* most children of the root of an OSCQuery tree
MaxKids == 2
\* most iterations of the poll loop
MaxCycles == 3
\* most calls the harness of RNBOConnection makes on one connection
MaxCalls == 3

----------------------------------------------------------------------------
\* serial.Serial.read(size) with a timeout: up to `size` bytes, fewer when the
\* line pauses (the pause is used up by the read) or nothing more arrives.

FirstGap(s) ==
    IF \E i \in 1..Len(s) : s[i] = GAP
    THEN CHOOSE i \in 1..Len(s) : s[i] = GAP /\ \A j \in 1..(i-1) : s[j] # GAP
    ELSE Len(s) + 1

\* a port opened without a timeout: the read waits through every pause
SerialReadBlocking(s, size) ==
    LET t == SelectSeq(s, LAMBDA x : x # GAP) IN
    IF Len(t) < size
    THEN [data |-> t, rest |-> <<>>]
    ELSE [data |-> SubSeq(t, 1, size), rest |-> SubSeq(t, size + 1, Len(t))]

\* the read of `size` bytes from s, whose first pause is at g
ReadUpTo(s, size, g) ==
    IF g <= size /\ g <= Len(s)
    THEN [data |-> SubSeq(s, 1, g - 1), rest |-> SubSeq(s, g + 1, Len(s))]
    ELSE IF Len(s) < size
    THEN [data |-> s, rest |-> <<>>]
    ELSE [data |-> SubSeq(s, 1, size), rest |-> SubSeq(s, size + 1, Len(s))]

SerialRead(s, size) == ReadUpTo(s, size, FirstGap(s))

\* the call returns None
NoMessage(rest) == [msg |-> None, rest |-> rest, error |-> FALSE]

\* serial.read on a port object that is not open raises PortNotOpenError, a
\* SerialException: nothing is read and the exception leaves the call
PortNotOpen(rest) == [msg |-> None, rest |-> rest, error |-> TRUE]

\* _read_message, lines 218-224: read single bytes until the start delimiter;
\* a timeout ends the search.  r is the byte read.
RECURSIVE FindStart(_)
RECURSIVE StartFrom(_)
FindStart(s) == StartFrom(SerialRead(s, 1))
StartFrom(r) ==
    IF r.data = <<>>
    THEN [found |-> FALSE, rest |-> r.rest]
    ELSE IF r.data[1] = ENTTEC_START_DELIMITER
    THEN [found |-> TRUE, rest |-> r.rest]
    ELSE FindStart(r.rest)

\* a length that forgets its high byte
HeaderLengthLowByte(header) == header[2]

\* header[1] | (header[2] << 8) on two bytes: the shifted byte has its low
\* eight bits clear, so the bitwise or is the sum.
HeaderLength(header) == header[2] + 256 * header[3]

\* an end check that takes any byte for the end delimiter
EndDelimiterAny(end) == end # <<>>

\* _read_message, lines 239-241: the byte read after the payload is accepted.
EndDelimiterOk(end) == end # <<>> /\ end[1] = ENTTEC_END_DELIMITER

\* a decoder that looks at the end delimiter and leaves it on the line
AfterEndPeeked(label, data, e) ==
    IF ~EndDelimiterOk(e.data)
    THEN NoMessage(e.rest)
    ELSE [msg |-> Some([label |-> label, data |-> data]),
          rest |-> e.data \o e.rest, error |-> FALSE]

\* _read_message, lines 239-245: e is the read of the end delimiter
AfterEnd(label, data, e) ==
    IF ~EndDelimiterOk(e.data)
    THEN NoMessage(e.rest)
    ELSE [msg |-> Some([label |-> label, data |-> data]), rest |-> e.rest,
          error |-> FALSE]

\* _read_message, lines 236-240: d is the read of the payload
AfterData(label, length, d) ==
    IF Len(d.data) < length
    THEN NoMessage(d.rest)
    ELSE AfterEnd(label, d.data, SerialRead(d.rest, 1))

\* _read_message, line 235: serial.read(length) if length > 0 else b''
ReadData(s, length) ==
    IF length > 0 THEN SerialRead(s, length) ELSE [data |-> <<>>, rest |-> s]

\* _read_message, lines 231-235: the header is complete
ParseHeader(label, length, rest) ==
    AfterData(label, length, ReadData(rest, length))

\* _read_message, lines 228-232: h is the read of the three header bytes
AfterHeader(h) ==
    IF Len(h.data) < 3
    THEN NoMessage(h.rest)
    ELSE ParseHeader(h.data[1], HeaderLength(h.data), h.rest)

\* _read_message, lines 219-227: start is the outcome of the search
AfterStart(start) ==
    IF ~start.found
    THEN NoMessage(start.rest)
    ELSE AfterHeader(SerialRead(start.rest, 3))

\* EnttecDMXReceiver._read_message: [msg |-> None or Some([label, data]),
\* rest |-> what the port has still to deliver, error |-> an exception of
\* the port leaves the call].  Line 215 returns None only when there is no
\* port object; after close() the object is still there and is read from.
read_message(ser, s) ==
    IF ser = "none" THEN NoMessage(s)
    ELSE IF ser = "closed" THEN PortNotOpen(s)
    ELSE AfterStart(FindStart(s))

\* an index that forgets the start code
DmxIndexNoStartCode(channel) == channel

\* read_dmx_channel, line 273: the 0-based index of a channel in the payload.
DmxIndex(channel) == channel + 1

\* an extraction that takes the channel from any message, whatever its label
\* and status byte
ExtractChannelUnvalidated(msg, channel) ==
    IF msg = None
    THEN None
    ELSE IF DmxIndex(channel) >= Len(msg[1].data)
    THEN None
    ELSE Some(msg[1].data[DmxIndex(channel) + 1])

\* read_dmx_channel, lines 258-278, on the message _read_message returned.
\* data[i] of the source (0-based) is data[i + 1] here.
ExtractChannel(msg, channel) ==
    IF msg = None
    THEN None
    ELSE
    LET label == msg[1].label
        data  == msg[1].data
    IN
    IF label # ENTTEC_LABEL_DMX_RECEIVED
    THEN None
    ELSE IF Len(data) < 2 \/ data[1] # 0
    THEN None
    ELSE IF DmxIndex(channel) >= Len(data)
    THEN None
    ELSE Some(data[DmxIndex(channel) + 1])

\* a presence that takes "no data" for "absent"
PresenceOfNoneIsAbsent(value) ==
    IF value = None THEN Some(FALSE) ELSE Some(value[1] > 0)

\* get_presence, lines 287-290, on the value read_dmx_channel returned.
PresenceOf(value) ==
    IF value = None THEN None ELSE Some(value[1] > 0)

\* read_dmx_channel on r, the outcome of its _read_message call
Extracted(r, channel) ==
    [msg |-> r.msg, value |-> ExtractChannel(r.msg, channel), rest |-> r.rest,
     error |-> r.error]

\* EnttecDMXReceiver.read_dmx_channel: one message is read, then extracted.
read_dmx_channel(ser, s, channel) == Extracted(read_message(ser, s), channel)

\* get_presence on r, the outcome of its read_dmx_channel call
WithPresence(r) ==
    [msg |-> r.msg, value |-> r.value, presence |-> PresenceOf(r.value),
     rest |-> r.rest, error |-> r.error]

\* EnttecDMXReceiver.get_presence
get_presence(ser, s) ==
    WithPresence(read_dmx_channel(ser, s, DMX_PRESENCE_CHANNEL))

\* The wire format of one message (class docstring, line 178):
\* [0x7E][Label][LengthLSB][LengthMSB][Data...][0xE7]
Frame(label, payload, end) ==
    <<ENTTEC_START_DELIMITER, label, Len(payload) % 256, Len(payload) \div 256>>
        \o payload \o <<end>>

Encode(label, payload) == Frame(label, payload, ENTTEC_END_DELIMITER)

----------------------------------------------------------------------------
\* RNBOConnection: the OSCQuery tree and its search

PRESENCE_PARAM_PATH == "/rnbo/inst/0/params/fadeTrig"
SecondParamPath == "/rnbo/inst/1/params/fadeTrig"
\* possible_paths of DMXToOSCBridge.setup, lines 332-335
possible_paths == <<PRESENCE_PARAM_PATH, SecondParamPath>>

\* JSON values of a node's "value"/"VALUE" key: absent or null, a number, or a
\* list of numbers.
NoneVal == [t |-> "none", v |-> <<>>]
IntVal(k) == [t |-> "int", v |-> <<k>>]
ListVal(elems) == [t |-> "list", v |-> elems]

\* Python truth of a JSON value
Truthy(val) ==
    CASE val.t = "none" -> FALSE
      [] val.t = "int" -> val.v[1] # 0
      [] val.t = "list" -> val.v # <<>>

\* a or b
PyOr(a, b) == IF Truthy(a) THEN a ELSE b

\* _search_tree, line 152: tree.get("value") or tree.get("VALUE")
NodeValue(node) == PyOr(node.value, node.VALUE)

\* _search_tree, line 153: val[0] if isinstance(val, list) and val else val
Unwrap(val) ==
    IF val.t = "list" /\ Truthy(val) THEN IntVal(val.v[1]) ELSE val

\* A node of the tree: a JSON object (dict TRUE) with the keys FULL_PATH,
\* value, VALUE and CONTENTS (absent keys are None, NoneVal or no children;
\* the children are in the order the object lists them), or another JSON
\* value (dict FALSE).
Node(path, val, VAL, kids) ==
    [dict |-> TRUE, FULL_PATH |-> path, value |-> val, VALUE |-> VAL,
     CONTENTS |-> kids]
NotADict ==
    [dict |-> FALSE, FULL_PATH |-> None, value |-> NoneVal, VALUE |-> NoneVal,
     CONTENTS |-> <<>>]
EmptyDict == Node(None, NoneVal, NoneVal, <<>>)

\* _search_tree, lines 147-158.  The result is a JSON value; NoneVal is None.
RECURSIVE search_tree(_, _)
RECURSIVE SearchChildren(_, _, _)
search_tree(node, target_path) ==
    IF ~node.dict
    THEN NoneVal
    ELSE IF node.FULL_PATH = Some(target_path)
    THEN Unwrap(NodeValue(node))
    ELSE SearchChildren(node.CONTENTS, target_path, 1)

\* lines 154-158: the children in order, the first result that is not None
SearchChildren(kids, target_path, i) ==
    IF i > Len(kids)
    THEN NoneVal
    ELSE LET result == search_tree(kids[i], target_path) IN
         IF result # NoneVal
         THEN result
         ELSE SearchChildren(kids, target_path, i + 1)

\* find_parameter_path, line 142: the path counts as found
PathFound(t, path) == search_tree(t, path) # NoneVal

\* find_parameter_path, lines 141-145
RECURSIVE FirstFound(_, _, _)
FirstFound(t, search_paths, i) ==
    IF i > Len(search_paths)
    THEN None
    ELSE IF PathFound(t, search_paths[i])
    THEN Some(search_paths[i])
    ELSE FirstFound(t, search_paths, i + 1)

\* an HTTP GET: the status of the answer, or no answer (RequestException)
HTTP_OK == 200
NoAnswer == 0
HttpOutcomes == {HTTP_OK, 404, 500, NoAnswer}

\* fetch_tree, lines 120-130: the body of a 200 answer, otherwise None
fetch_tree(url, status, body) ==
    IF url = None THEN None
    ELSE IF status = HTTP_OK THEN Some(body)
    ELSE None

\* find_parameter_path, lines 137-139: `not tree`
NoTree(fetched) == fetched = None \/ fetched[1] = EmptyDict

\* RNBOConnection.find_parameter_path
find_parameter_path(url, status, body, search_paths) ==
    LET fetched == fetch_tree(url, status, body) IN
    IF NoTree(fetched)
    THEN None
    ELSE FirstFound(fetched[1], search_paths, 1)

----------------------------------------------------------------------------
\* OSCQuery trees of the resolver harness

TreePaths == {None, Some(PRESENCE_PARAM_PATH), Some(SecondParamPath)}
\* (value, VALUE) of a node
ValuePairs ==
    {<<NoneVal, NoneVal>>, <<IntVal(0), NoneVal>>, <<NoneVal, IntVal(0)>>,
     <<IntVal(1), IntVal(0)>>, <<NoneVal, ListVal(<<1>>)>>}
Leaves == {Node(p, vv[1], vv[2], <<>>) : p \in TreePaths, vv \in ValuePairs}
Wrapped == {Node(None, NoneVal, NoneVal, <<leaf>>) : leaf \in Leaves}
Kids == Leaves \cup Wrapped \cup {NotADict}
KidLists == UNION {[1..n -> Kids] : n \in 0..MaxKids}
Roots ==
    {Node(None, NoneVal, NoneVal, <<>>),
     Node(Some(PRESENCE_PARAM_PATH), NoneVal, NoneVal, <<>>),
     Node(Some(PRESENCE_PARAM_PATH), NoneVal, IntVal(1), <<>>)}
Trees == {[root EXCEPT !.CONTENTS = kids] : root \in Roots, kids \in KidLists}
\* the trees the server of the bridge may answer with: a root and one child
OneChildTrees ==
    {[root EXCEPT !.CONTENTS = <<kid>>] : root \in Roots, kid \in Kids}

CandidateLists ==
    {possible_paths, <<SecondParamPath, PRESENCE_PARAM_PATH>>,
     <<SecondParamPath>>, <<>>}

----------------------------------------------------------------------------
\* RNBOConnection: discovery and the OSC sender

\* the address socket.gethostbyname gives for <hostname>.local
HostAddress == "host.local"
Loopback == "127.0.0.1"

\* discover, lines 95-102: the resolved address, or localhost when the name
\* does not resolve (socket.gaierror)
ResolvedAddress(resolves) == IF resolves THEN HostAddress ELSE Loopback

OSCQUERY_PORT == 5678

\* discover, line 104
UrlOf(address) == <<"http", address, OSCQUERY_PORT>>

\* discover, lines 107-118: the result of the call
DiscoverResult(status) == status = HTTP_OK

\* discover, lines 109-113: the client after the GET was answered; it is
\* constructed in the branch that returns True, bound to self.ip_address
ClientAfter(client, address, status) ==
    IF DiscoverResult(status) THEN address ELSE client

\* discover, lines 89-118: the fields of the connection after a call that
\* ran from its first line to its return
Discover(resolves, status) ==
    /\ ip_address' = Some(ResolvedAddress(resolves))
    /\ oscquery_url' = Some(UrlOf(ResolvedAddress(resolves)))
    /\ osc_client' = ClientAfter(osc_client, Some(ResolvedAddress(resolves)),
                                 status)

\* a send that does not look whether a client is bound
send_presenceUnbound(client, log, value, path) ==
    Append(log, [path |-> path, value |-> value])

\* send_presence, lines 168-170: the messages sent so far, after the call
send_presence(client, log, value, path) ==
    IF client # None
    THEN Append(log, [path |-> path, value |-> value])
    ELSE log

----------------------------------------------------------------------------
\* DMXToOSCBridge

max_retries == 30

\* a loop condition that lets one more attempt through
RetriesLeftOneMore(count) == count <= max_retries

\* setup, line 321: the condition of the retry loop
RetriesLeft(count) == count < max_retries

\* a read of None taken for "absent"
NextPresenceNoneIsAbsent(read, held) ==
    IF read = None THEN FALSE ELSE read[1]

\* run, lines 364-365: the presence held after a read
NextPresence(read, held) ==
    IF read # None /\ read[1] # held THEN read[1] ELSE held

\* run, line 370
FadeValue(held) == IF held THEN 1 ELSE 0

\* a constructor that starts the bridge with presence held true
ConstructedPresent ==
    /\ osc_client = None
    /\ ip_address = None
    /\ oscquery_url = None
    /\ running = FALSE
    /\ current_presence = TRUE
    /\ param_path = PRESENCE_PARAM_PATH
    /\ retry_count = 0
    /\ presence = None
    /\ exit_code = None
    /\ pending = None
    /\ sent = <<>>
    /\ connect_calls = 0
    /\ iterations = 0
    /\ cycle_start = [held |-> FALSE, nsent |-> 0]
    /\ cycles = <<>>
    /\ interrupted = FALSE

\* DMXToOSCBridge.__init__ with RNBOConnection.__init__ and
\* EnttecDMXReceiver.__init__: every field but the serial port and the
\* position of main
Constructed ==
    /\ osc_client = None
    /\ ip_address = None
    /\ oscquery_url = None
    /\ running = FALSE
    /\ current_presence = FALSE
    /\ param_path = PRESENCE_PARAM_PATH
    /\ retry_count = 0
    /\ presence = None
    /\ exit_code = None
    /\ pending = None
    /\ sent = <<>>
    /\ connect_calls = 0
    /\ iterations = 0
    /\ cycle_start = [held |-> FALSE, nsent |-> 0]
    /\ cycles = <<>>
    /\ interrupted = FALSE

\* What arrives on the serial line of the bridge while one get_presence call
\* waits: a message, a damaged message, or nothing within the timeout.
PresentMsg == Encode(ENTTEC_LABEL_DMX_RECEIVED, <<0, 0, 1>>)
AbsentMsg == Encode(ENTTEC_LABEL_DMX_RECEIVED, <<0, 0, 0>>)
Segments ==
    {PresentMsg, AbsentMsg,
     <<GAP>>,                                                \* read timeout
     <<ENTTEC_START_DELIMITER, ENTTEC_LABEL_DMX_RECEIVED, 3, 0, 0, GAP>>,
                                                             \* truncated
     Frame(ENTTEC_LABEL_DMX_RECEIVED, <<0, 0, 1>>, 0),       \* bad end
     Encode(ENTTEC_LABEL_DMX_RECEIVED + 1, <<0, 0, 1>>),     \* other label
     Encode(ENTTEC_LABEL_DMX_RECEIVED, <<0>>),               \* short payload
     Encode(ENTTEC_LABEL_DMX_RECEIVED, <<1, 0, 1>>),         \* bad status
     Encode(ENTTEC_LABEL_DMX_RECEIVED, <<0, 0>>),            \* no channel 1
     PresentMsg \o AbsentMsg}                                \* two at once

\* the status of a process that ends on an uncaught KeyboardInterrupt: the
\* interpreter kills itself with SIGINT (signal 2)
KilledBySigint == 128 + 2

\* main, lines 404-405: the status of a process that ends on an uncaught
\* exception
StatusOf(exception) ==
    IF exception = "KeyboardInterrupt" THEN KilledBySigint ELSE 1

\* What arrives on the line during one get_presence call: one of the
\* segments, or nothing at all (the call then has only what was left on the
\* line)
Arrivals == Segments \cup {<<>>}

\* main() has constructed the bridge and is about to call setup()
Init ==
    /\ serial = "none"
    /\ stream = <<>>
    /\ input = [kind |-> "none"]
    /\ calls = <<>>
    /\ tree = EmptyDict
    /\ lookup = None
    /\ Constructed
    /\ pc = "discovering"

\* setup, lines 321-322, with discover, lines 95-102: the loop condition
\* holds, discover() is called and assigns the address, the resolved one or
\* the loopback address
DiscoverResolve ==
    /\ pc = "discovering"
    /\ RetriesLeft(retry_count)
    /\ \E resolves \in BOOLEAN :
       ip_address' = Some(ResolvedAddress(resolves))
    /\ pc' = "resolved"
    /\ UNCHANGED <<receiverVars, receiverHarness, resolverVars, osc_client,
                   oscquery_url, bridgeVars, retry_count, presence, exit_code,
                   pending, historyVars>>

\* setup, line 322, with discover, lines 95-99, and main, lines 395-405:
\* gethostbyname raises an exception that is not socket.gaierror (UnicodeError
\* of the idna codec, for a host name with an empty or too long label); line
\* 99 does not take it and nothing else does: discover(), setup() and main()
\* are left with the address as it was and the process ends
DiscoverRaises ==
    /\ pc = "discovering"
    /\ RetriesLeft(retry_count)
    /\ pending' = Some("UnicodeError")
    /\ pc' = "aborted"
    /\ exit_code' = Some(StatusOf("UnicodeError"))
    /\ UNCHANGED <<receiverVars, receiverHarness, resolverVars, rnboVars,
                   bridgeVars, retry_count, presence, historyVars>>

\* discover, line 104: the URL is assigned; the GET of line 108 is next
DiscoverUrl ==
    /\ pc = "resolved"
    /\ oscquery_url' = Some(UrlOf(ip_address[1]))
    /\ pc' = "get"
    /\ UNCHANGED <<receiverVars, receiverHarness, resolverVars, osc_client,
                   ip_address, bridgeVars, retry_count, presence, exit_code,
                   pending, historyVars>>

\* discover, lines 108-118, and setup, lines 322-326: the GET is answered or
\* fails; on 200 the client is constructed and the loop is left, otherwise
\* retry_count is incremented and setup sleeps before the next turn
DiscoverAnswer ==
    /\ pc = "get"
    /\ \E status \in HttpOutcomes :
       /\ osc_client' = ClientAfter(osc_client, ip_address, status)
       /\ IF DiscoverResult(status)
          THEN /\ pc' = "finding"
               /\ UNCHANGED retry_count
          ELSE /\ retry_count' = retry_count + 1
               /\ pc' = "discovering"
    /\ UNCHANGED <<receiverVars, receiverHarness, resolverVars, ip_address,
                   oscquery_url, bridgeVars, presence, exit_code, pending,
                   historyVars>>

\* setup, lines 321 and 327-329: the loop ran out; setup returns False
DiscoverExhausted ==
    /\ pc = "discovering"
    /\ ~RetriesLeft(retry_count)
    /\ pc' = "setup_failed"
    /\ UNCHANGED <<receiverVars, receiverHarness, resolverVars, rnboVars,
                   bridgeVars, retry_count, presence, exit_code, pending,
                   historyVars>>

\* a setup that looks the path up and then keeps the default whatever it found
FoundIgnored(found_path, fetched) ==
    /\ param_path' = param_path
    /\ lookup' = Some([fetched |-> fetched, path |-> found_path])

\* setup, lines 337-341: what setup does with the path that was found
Found(found_path, fetched) ==
    /\ param_path' = IF found_path # None THEN found_path[1] ELSE param_path
    /\ lookup' = Some([fetched |-> fetched, path |-> found_path])

\* setup, lines 331-341: the parameter path is looked up in the tree
FindPath ==
    /\ pc = "finding"
    /\ \E status \in HttpOutcomes, body \in OneChildTrees :
       Found(find_parameter_path(oscquery_url, status, body, possible_paths),
             status = HTTP_OK)
    /\ pc' = "connecting"
    /\ UNCHANGED <<receiverVars, receiverHarness, tree, rnboVars, running,
                   current_presence, retry_count, presence, exit_code, pending,
                   historyVars>>

\* a setup that tries the port again after a failure
ConnectRetrying ==
    /\ pc = "connecting"
    /\ \/ /\ serial' = "open"
          /\ stream' = <<>>
          /\ pc' = "opened"
          /\ UNCHANGED connect_calls
       \/ /\ connect_calls < 2
          /\ connect_calls' = connect_calls + 1
          /\ UNCHANGED <<receiverVars, pc>>
    /\ UNCHANGED <<receiverHarness, resolverVars, rnboVars, bridgeVars,
                   retry_count, presence, exit_code, pending, sent, iterations,
                   cycle_start, cycles, interrupted>>

\* a setup that goes on to the loop although the port did not open
ConnectFailureIgnored ==
    /\ pc = "connecting"
    /\ \/ /\ serial' = "open"
          /\ stream' = <<>>
          /\ pc' = "opened"
          /\ UNCHANGED connect_calls
       \/ /\ connect_calls' = connect_calls + 1
          /\ pc' = "setup_done"
          /\ UNCHANGED receiverVars
    /\ UNCHANGED <<receiverHarness, resolverVars, rnboVars, bridgeVars,
                   retry_count, presence, exit_code, pending, sent, iterations,
                   cycle_start, cycles, interrupted>>

\* setup, line 345, with EnttecDMXReceiver.connect, lines 197-206:
\* serial.Serial returns the open port and it is assigned, or it raises
\* SerialException, connect() returns False and so does setup (lines 346-347)
Connect ==
    /\ pc = "connecting"
    /\ \/ /\ serial' = "open"
          /\ stream' = <<>>
          /\ pc' = "opened"
          /\ UNCHANGED connect_calls
       \/ /\ connect_calls' = connect_calls + 1
          /\ pc' = "setup_failed"
          /\ UNCHANGED receiverVars
    /\ UNCHANGED <<receiverHarness, resolverVars, rnboVars, bridgeVars,
                   retry_count, presence, exit_code, pending, sent, iterations,
                   cycle_start, cycles, interrupted>>

\* connect, lines 202-203, and setup, line 345: connect() logs and returns
\* True
ConnectReturned ==
    /\ pc = "opened"
    /\ connect_calls' = connect_calls + 1
    /\ pc' = "setup_done"
    /\ UNCHANGED <<receiverVars, receiverHarness, resolverVars, rnboVars,
                   bridgeVars, retry_count, presence, exit_code, pending, sent,
                   iterations, cycle_start, cycles, interrupted>>

\* setup, lines 329 and 347, main, lines 395 and 397-399, and line 405:
\* setup returns False (its locals are gone), main returns 1 and the process
\* exits with it
ExitSetupFailed ==
    /\ pc = "setup_failed"
    /\ pc' = "exited"
    /\ exit_code' = Some(1)
    /\ retry_count' = 0
    /\ UNCHANGED <<receiverVars, receiverHarness, resolverVars, rnboVars,
                   bridgeVars, presence, pending, historyVars>>

\* setup, lines 349-350, main, lines 395-396, and run, line 356: setup logs
\* and returns True (its locals are gone), main calls run(), which sets the
\* running flag
RunStart ==
    /\ pc = "setup_done"
    /\ running' = TRUE
    /\ retry_count' = 0
    /\ pc' = "starting"
    /\ UNCHANGED <<receiverVars, receiverHarness, resolverVars, rnboVars,
                   current_presence, param_path, presence, exit_code, pending,
                   historyVars>>

\* run, lines 357-359: run() logs and enters its try block
EnterTry ==
    /\ pc = "starting"
    /\ pc' = "loop"
    /\ UNCHANGED <<receiverVars, receiverHarness, resolverVars, rnboVars,
                   bridgeVars, retry_count, presence, exit_code, pending,
                   historyVars>>

\* run, line 360: the loop condition
LoopCheck ==
    /\ pc = "loop"
    /\ iterations < MaxCycles
    /\ IF running
       THEN /\ pc' = "read"
            /\ iterations' = iterations + 1
            /\ cycle_start' = [held |-> current_presence, nsent |-> Len(sent)]
       ELSE /\ pc' = "finally"
            /\ UNCHANGED <<iterations, cycle_start>>
    /\ UNCHANGED <<receiverVars, receiverHarness, resolverVars, rnboVars,
                   bridgeVars, retry_count, presence, exit_code, pending, sent,
                   connect_calls, cycles, interrupted>>

\* run, line 362: the call returned r and presence is assigned, or the call
\* raised and run() leaves its try block for the finally clause with the
\* exception propagating
Returned(r) ==
    /\ stream' = r.rest
    /\ IF r.error
       THEN /\ pending' = Some("SerialException")
            /\ pc' = "finally"
            /\ UNCHANGED presence
       ELSE /\ presence' = r.presence
            /\ pc' = "update"
            /\ UNCHANGED pending

\* run, line 362: the call reads what is pending on the line and what
\* arrives while it waits
GetPresence ==
    /\ pc = "read"
    /\ \E arrived \in Arrivals :
       Returned(get_presence(serial, stream \o arrived))
    /\ UNCHANGED <<serial, receiverHarness, resolverVars, rnboVars, bridgeVars,
                   retry_count, exit_code, historyVars>>

\* run, lines 364-367
UpdatePresence ==
    /\ pc = "update"
    /\ current_presence' = NextPresence(presence, current_presence)
    /\ pc' = "send"
    /\ UNCHANGED <<receiverVars, receiverHarness, resolverVars, rnboVars,
                   running, param_path, retry_count, presence, exit_code,
                   pending, historyVars>>

\* a loop that sends before it updates: the message carries the presence
\* held when the iteration began
SendPresenceStale ==
    /\ pc = "send"
    /\ sent' = send_presence(osc_client, sent, FadeValue(cycle_start.held),
                             param_path)
    /\ pc' = "sleep"
    /\ UNCHANGED <<receiverVars, receiverHarness, resolverVars, rnboVars,
                   bridgeVars, retry_count, presence, exit_code, pending,
                   connect_calls, iterations, cycle_start, cycles,
                   interrupted>>

\* run, lines 370-371
SendPresence ==
    /\ pc = "send"
    /\ sent' = send_presence(osc_client, sent, FadeValue(current_presence),
                             param_path)
    /\ pc' = "sleep"
    /\ UNCHANGED <<receiverVars, receiverHarness, resolverVars, rnboVars,
                   bridgeVars, retry_count, presence, exit_code, pending,
                   connect_calls, iterations, cycle_start, cycles,
                   interrupted>>

\* run, line 373: the iteration ends
Sleep ==
    /\ pc = "sleep"
    /\ cycles' = Append(cycles,
                        [read |-> presence, held |-> cycle_start.held,
                         msgs |-> SubSeq(sent, cycle_start.nsent + 1, Len(sent))])
    /\ pc' = "loop"
    /\ UNCHANGED <<receiverVars, receiverHarness, resolverVars, rnboVars,
                   bridgeVars, retry_count, presence, exit_code, pending, sent,
                   connect_calls, iterations, cycle_start, interrupted>>

\* the line after its first k bytes and pauses were taken
LineAfter(s, k) == SubSeq(s, k + 1, Len(s))

\* _read_message, lines 220-240: how much of the line s a call that returned
\* r has taken
Taken(s, r) == Len(s) - Len(r.rest)

\* _read_message, lines 220-240: the states of the line s at which the call
\* that would return r can be interrupted: in any of its reads, with any
\* part of what that read takes already taken, or after its last read
InterruptPoints(s, r) == {LineAfter(s, k) : k \in 0..Taken(s, r)}

\* _read_message, lines 220-240: the states of the line s at which a read
\* of the call can raise: the call is in a read that still waits for a byte
\* or for the end of a pause; w is the result of the call on s followed by
\* a pause
RaisePoints(s, w) == {LineAfter(s, k) : k \in 0..(Taken(s \o <<GAP>>, w) - 1)}

\* run, line 362, with _read_message, lines 220-240: serial.read raises
\* SerialException (the adapter was unplugged) in one of the reads of the
\* call; what the earlier reads took is gone from the line; nothing in run()
\* or main() catches the exception, so the finally clause runs with it
\* propagating
ReadRaises ==
    /\ pc = "read"
    /\ serial = "open"
    /\ \E arrived \in Arrivals :
       stream' \in RaisePoints(stream \o arrived,
                               get_presence(serial, stream \o arrived \o <<GAP>>))
    /\ pending' = Some("SerialException")
    /\ pc' = "finally"
    /\ UNCHANGED <<serial, receiverHarness, resolverVars, rnboVars, bridgeVars,
                   retry_count, presence, exit_code, historyVars>>

\* where run() is inside its try block
InTry == pc \in {"loop", "read", "update", "send", "sleep"}

\* run, lines 359-375: KeyboardInterrupt is raised wherever the loop is and
\* the except clause takes it; a get_presence call that was waiting leaves
\* the line as its reads had left it
KeyboardInterrupt ==
    /\ InTry
    /\ interrupted' = TRUE
    /\ pc' = "except"
    /\ IF pc = "read"
       THEN \E arrived \in Arrivals :
            stream' \in InterruptPoints(stream \o arrived,
                                        get_presence(serial, stream \o arrived))
       ELSE UNCHANGED stream
    /\ UNCHANGED <<serial, receiverHarness, resolverVars, rnboVars, bridgeVars,
                   retry_count, presence, exit_code, pending, sent,
                   connect_calls, iterations, cycle_start, cycles>>

\* run, lines 375-377: the except clause logs and the finally clause is
\* entered with no exception propagating
ExceptClause ==
    /\ pc = "except"
    /\ pc' = "finally"
    /\ UNCHANGED <<receiverVars, receiverHarness, resolverVars, rnboVars,
                   bridgeVars, retry_count, presence, exit_code, pending,
                   historyVars>>

\* run, lines 376-377: a second KeyboardInterrupt is raised while the except
\* clause logs; the finally clause runs with it propagating
InterruptInExcept ==
    /\ pc = "except"
    /\ pending' = Some("KeyboardInterrupt")
    /\ pc' = "finally"
    /\ UNCHANGED <<receiverVars, receiverHarness, resolverVars, rnboVars,
                   bridgeVars, retry_count, presence, exit_code, historyVars>>

\* EnttecDMXReceiver.close, lines 292-296
close(ser) == IF ser = "open" THEN "closed" ELSE ser

\* DMXToOSCBridge.shutdown, lines 380-384: the running flag and the port
\* after a call that ran to its end
shutdown(run, ser) == [running |-> FALSE, serial |-> close(ser)]

\* run, lines 377-378, and shutdown, line 382: the finally clause calls
\* shutdown(), which clears the running flag
ShutdownFlag ==
    /\ pc = "finally"
    /\ running' = shutdown(running, serial).running
    /\ pc' = "closing"
    /\ UNCHANGED <<receiverVars, receiverHarness, resolverVars, rnboVars,
                   current_presence, param_path, retry_count, presence,
                   exit_code, pending, historyVars>>

\* shutdown, lines 383-384, with EnttecDMXReceiver.close: the port is closed
ShutdownClose ==
    /\ pc = "closing"
    /\ serial' = shutdown(running, serial).serial
    /\ pc' = "shut"
    /\ UNCHANGED <<stream, receiverHarness, resolverVars, rnboVars, bridgeVars,
                   retry_count, presence, exit_code, pending, historyVars>>

\* run, line 378, and main, lines 396-405: shutdown() has returned; run()
\* returns, main returns 0 and the process exits with it, or the exception
\* that was propagating leaves run() and main() and ends the process
RunReturns ==
    /\ pc = "shut"
    /\ IF pending = None
       THEN /\ pc' = "exited"
            /\ exit_code' = Some(0)
       ELSE /\ pc' = "aborted"
            /\ exit_code' = Some(StatusOf(pending[1]))
    /\ UNCHANGED <<receiverVars, receiverHarness, resolverVars, rnboVars,
                   bridgeVars, retry_count, presence, pending, historyVars>>

\* where main() is outside the try block of run(): in setup(), between
\* setup() and the try statement, and in the finally clause with shutdown()
OutsideTry ==
    {"discovering", "resolved", "get", "finding", "connecting", "opened",
     "setup_done", "setup_failed", "starting", "finally", "closing", "shut"}

\* main, lines 395-405, with setup, lines 311-350, run, lines 356-357 and
\* 377-378, and shutdown, lines 380-384: KeyboardInterrupt is raised where no
\* except clause takes it; the process ends at once, with what had been
\* assigned so far and without main() returning
UncaughtInterrupt ==
    /\ pc \in OutsideTry
    /\ pending' = Some("KeyboardInterrupt")
    /\ pc' = "aborted"
    /\ exit_code' = Some(StatusOf("KeyboardInterrupt"))
    /\ UNCHANGED <<receiverVars, receiverHarness, resolverVars, rnboVars,
                   bridgeVars, retry_count, presence, historyVars>>

Next ==
    \/ DiscoverResolve
    \/ DiscoverRaises
    \/ DiscoverUrl
    \/ DiscoverAnswer
    \/ DiscoverExhausted
    \/ FindPath
    \/ Connect
    \/ ConnectReturned
    \/ ExitSetupFailed
    \/ RunStart
    \/ EnterTry
    \/ LoopCheck
    \/ GetPresence
    \/ UpdatePresence
    \/ SendPresence
    \/ Sleep
    \/ ReadRaises
    \/ KeyboardInterrupt
    \/ ExceptClause
    \/ InterruptInExcept
    \/ ShutdownFlag
    \/ ShutdownClose
    \/ RunReturns
    \/ UncaughtInterrupt

Spec == Init /\ [][Next]_vars

----------------------------------------------------------------------------
\* The resolver harness: one call on a connection that has discovered

OscQueryUrl == Some(UrlOf(HostAddress))

InitResolver ==
    /\ tree \in Trees
    /\ lookup = None
    /\ serial = "none"
    /\ stream = <<>>
    /\ input = [kind |-> "none"]
    /\ calls = <<>>
    /\ Constructed
    /\ pc = "harness"

CallFindParameterPath ==
    /\ lookup = None
    /\ \E search_paths \in CandidateLists, status \in HttpOutcomes :
       lookup' = Some([op |-> "find_parameter_path", paths |-> search_paths,
                       status |-> status,
                       path |-> find_parameter_path(OscQueryUrl, status, tree,
                                                    search_paths),
                       val |-> NoneVal])
    /\ UNCHANGED <<tree, receiverVars, receiverHarness, programVars>>

CallSearchTree ==
    /\ lookup = None
    /\ \E target \in {PRESENCE_PARAM_PATH, SecondParamPath} :
       lookup' = Some([op |-> "search_tree", paths |-> <<target>>,
                       status |-> HTTP_OK, path |-> None,
                       val |-> search_tree(tree, target)])
    /\ UNCHANGED <<tree, receiverVars, receiverHarness, programVars>>

NextResolver ==
    \/ CallFindParameterPath
    \/ CallSearchTree

SpecResolver == InitResolver /\ [][NextResolver]_vars

----------------------------------------------------------------------------
\* The connection harness: discover() and send_presence() called in any
\* order on one RNBOConnection, from its construction on.  Each call is
\* recorded: for discover whether the name resolved, the URL asked, the
\* HTTP status, the result and whether the call raised; for send_presence
\* the value, the path and the number of datagrams that left; for both
\* whether a client was bound before.

InitSender ==
    /\ serial = "none"
    /\ stream = <<>>
    /\ input = [kind |-> "none"]
    /\ calls = <<>>
    /\ tree = EmptyDict
    /\ lookup = None
    /\ Constructed
    /\ pc = "harness"

CallDiscover ==
    /\ Len(calls) < MaxCalls
    /\ \E resolves \in BOOLEAN, status \in HttpOutcomes :
       /\ Discover(resolves, status)
       /\ calls' = Append(calls,
                          [op |-> "discover", bound |-> osc_client # None,
                           resolves |-> resolves,
                           url |-> Some(UrlOf(ResolvedAddress(resolves))),
                           status |-> status,
                           result |-> DiscoverResult(status),
                           raised |-> FALSE,
                           value |-> 0, path |-> "", emitted |-> 0])
    /\ UNCHANGED <<receiverVars, input, resolverVars, bridgeVars, controlVars,
                   historyVars>>

\* discover, lines 95-99: gethostbyname raises an exception that is not
\* socket.gaierror; the call is left by it before anything is assigned and
\* before the GET is made
CallDiscoverRaises ==
    /\ Len(calls) < MaxCalls
    /\ calls' = Append(calls,
                       [op |-> "discover", bound |-> osc_client # None,
                        resolves |-> FALSE, url |-> None, status |-> NoAnswer,
                        result |-> FALSE, raised |-> TRUE,
                        value |-> 0, path |-> "", emitted |-> 0])
    /\ UNCHANGED <<receiverVars, input, resolverVars, rnboVars, bridgeVars,
                   controlVars, historyVars>>

CallSendPresence ==
    /\ Len(calls) < MaxCalls
    /\ \E value \in {0, 1}, path \in {PRESENCE_PARAM_PATH, SecondParamPath} :
       /\ sent' = send_presence(osc_client, sent, value, path)
       /\ calls' = Append(calls,
                          [op |-> "send_presence", bound |-> osc_client # None,
                           resolves |-> FALSE, url |-> None,
                           status |-> NoAnswer, result |-> FALSE,
                           raised |-> FALSE,
                           value |-> value, path |-> path,
                           emitted |-> Len(sent') - Len(sent)])
    /\ UNCHANGED <<receiverVars, input, resolverVars, rnboVars, bridgeVars,
                   controlVars, connect_calls, iterations, cycle_start, cycles,
                   interrupted>>

NextSender ==
    \/ CallDiscover
    \/ CallDiscoverRaises
    \/ CallSendPresence

SpecSender == InitSender /\ [][NextSender]_vars

----------------------------------------------------------------------------
\* Serial inputs of the receiver harness

ByteSample == {0, 1, ENTTEC_LABEL_DMX_RECEIVED, ENTTEC_START_DELIMITER,
               ENTTEC_END_DELIMITER}
PayloadBytes == {0, 1, ENTTEC_START_DELIMITER, ENTTEC_END_DELIMITER}
Labels == {0, ENTTEC_LABEL_DMX_RECEIVED, ENTTEC_START_DELIMITER,
           ENTTEC_END_DELIMITER, 255}

ShortPayloads == UNION {[1..n -> PayloadBytes] : n \in 0..MaxPayload}
\* payloads whose length needs the high length byte
LongLengths == {255, 256, 257, 512}
LongPayloads ==
    {[i \in 1..n |-> CASE i = 3 -> 1
                      [] i = 4 -> ENTTEC_START_DELIMITER
                      [] i = 5 -> ENTTEC_END_DELIMITER
                      [] OTHER -> 0] : n \in LongLengths}
Payloads == ShortPayloads \cup LongPayloads

\* what follows the first message on the line: nothing, or this message
FollowFrame == [label |-> ENTTEC_LABEL_DMX_RECEIVED, data |-> <<0, 0, 1>>]
Follows == {<<>>, Encode(FollowFrame.label, FollowFrame.data)}
\* noise in front of the first message: no start delimiter in it
Leads == {<<>>, <<0, ENTTEC_END_DELIMITER>>}

\* kind "good": lead, a well-formed message, follow
\* kind "badend": a message whose last byte is `end`, not 0xE7, then follow
\* kind "cut": the first `keep` bytes of a well-formed message, then the line
\*             pauses (GAP) and follow arrives, or (`pause` FALSE) nothing
\*             more arrives at all
Inputs ==
    [kind : {"good"}, label : Labels, payload : Payloads, lead : Leads,
     follow : Follows, end : {ENTTEC_END_DELIMITER}, keep : {0},
     pause : {FALSE}]
    \cup
    [kind : {"badend"}, label : Labels, payload : ShortPayloads, lead : {<<>>},
     follow : Follows, end : ByteSample \ {ENTTEC_END_DELIMITER}, keep : {0},
     pause : {FALSE}]
    \cup
    {i \in [kind : {"cut"}, label : Labels, payload : ShortPayloads,
            lead : {<<>>}, follow : Follows, end : {ENTTEC_END_DELIMITER},
            keep : 1..(MaxPayload + 4), pause : BOOLEAN] :
        /\ i.keep <= Len(i.payload) + 4
        /\ (~i.pause => i.follow = <<>>)}

StreamOf(i) ==
    CASE i.kind = "good" ->
            i.lead \o Encode(i.label, i.payload) \o i.follow
      [] i.kind = "badend" ->
            Frame(i.label, i.payload, i.end) \o i.follow
      [] i.kind = "cut" ->
            SubSeq(Encode(i.label, i.payload), 1, i.keep)
                \o (IF i.pause THEN <<GAP>> ELSE <<>>) \o i.follow

----------------------------------------------------------------------------
\* The receiver harness: calls of the public and private read methods on one
\* connected receiver, for as long as the line has something to deliver.

InitReceiver ==
    /\ serial = "open"
    /\ input \in Inputs
    /\ stream = StreamOf(input)
    /\ calls = <<>>
    /\ tree = EmptyDict
    /\ lookup = None
    /\ Constructed
    /\ pc = "harness"

\* the call is recorded and the line moves on
Called(op, arg, msg, value, pres, rest) ==
    /\ stream' = rest
    /\ calls' = Append(calls, [op |-> op, arg |-> arg, after |-> rest,
                               msg |-> msg, value |-> value,
                               presence |-> pres])

ReadMessageReturned(r) ==
    Called("read_message", 0, r.msg, None, None, r.rest)

ReadDmxChannelReturned(channel, r) ==
    Called("read_dmx_channel", channel, r.msg, r.value, None, r.rest)

GetPresenceReturned(r) ==
    Called("get_presence", 0, r.msg, r.value, r.presence, r.rest)

CallReadMessage ==
    /\ stream # <<>>
    /\ ReadMessageReturned(read_message(serial, stream))
    /\ UNCHANGED <<serial, input, resolverVars, programVars>>

CallReadDmxChannel ==
    /\ stream # <<>>
    /\ \E channel \in 1..MaxChannel :
       ReadDmxChannelReturned(channel, read_dmx_channel(serial, stream, channel))
    /\ UNCHANGED <<serial, input, resolverVars, programVars>>

CallGetPresence ==
    /\ stream # <<>>
    /\ GetPresenceReturned(get_presence(serial, stream))
    /\ UNCHANGED <<serial, input, resolverVars, programVars>>

NextReceiver ==
    \/ CallReadMessage
    \/ CallReadDmxChannel
    \/ CallGetPresence

SpecReceiver == InitReceiver /\ [][NextReceiver]_vars

----------------------------------------------------------------------------
\* Claims on the receiver (checked under SpecReceiver)

FirstCall == calls[1]

\* C4 Framing round-trip: a line that holds 0x7E, b, L low byte, L high byte,
\* a payload of L bytes (0x7E and 0xE7 among them) and 0xE7 is decoded by the
\* first _read_message call to exactly (b, payload).
FramingRoundTrip ==
    (/\ input.kind = "good"
     /\ Len(calls) >= 1
     /\ FirstCall.op = "read_message")
    => /\ FirstCall.msg = Some([label |-> input.label, data |-> input.payload])
       /\ FirstCall.after = input.follow

\* a 512-byte payload holding both delimiters came out whole
FramingRoundTripWitness ==
    /\ input.kind = "good"
    /\ Len(input.payload) = 512
    /\ \E i \in 1..8 : input.payload[i] = ENTTEC_START_DELIMITER
    /\ \E i \in 1..8 : input.payload[i] = ENTTEC_END_DELIMITER
    /\ Len(calls) >= 1
    /\ FirstCall.op = "read_message"
    /\ FirstCall.msg # None
    /\ Len(FirstCall.msg[1].data) = 512

\* C5 Bad end delimiter: a message whose terminator is any byte but 0xE7 makes
\* the call return None and is used up whole; the well-formed message behind
\* it is returned by the next call.
BadEndDelimiter ==
    (input.kind = "badend" /\ Len(calls) >= 1)
    => /\ FirstCall.msg = None
       /\ FirstCall.after = input.follow
       /\ (Len(calls) >= 2 /\ input.follow # <<>>)
              => calls[2].msg = Some(FollowFrame)

\* the terminator was a start delimiter, and the next call still found the
\* message behind it
BadEndDelimiterWitness ==
    /\ input.kind = "badend"
    /\ input.end = ENTTEC_START_DELIMITER
    /\ input.follow # <<>>
    /\ Len(calls) = 2
    /\ FirstCall.msg = None
    /\ calls[2].msg = Some(FollowFrame)

\* the bytes of the message that arrived before the line paused
CutBeforePayloadEnd == input.kind = "cut" /\ input.keep <= Len(input.payload) + 3

\* C6 Truncation safety: when the line goes quiet after the start delimiter
\* and before the header or the declared payload is complete, the call
\* returns None, nothing of the partial message is kept, and the next call
\* searches for a start delimiter in what arrives afterwards.
TruncationSafety ==
    (CutBeforePayloadEnd /\ Len(calls) >= 1)
    => /\ FirstCall.msg = None
       /\ FirstCall.value = None
       /\ FirstCall.presence = None
       /\ FirstCall.after = input.follow
       /\ (Len(calls) >= 2 /\ input.follow # <<>>)
              => calls[2].msg = Some(FollowFrame)

\* the payload was cut short, the call returned None and the next call
\* returned the message that arrived after the pause
TruncationSafetyWitness ==
    /\ CutBeforePayloadEnd
    /\ input.keep > 4
    /\ input.pause
    /\ input.follow # <<>>
    /\ Len(calls) = 2
    /\ FirstCall.msg = None
    /\ calls[2].msg = Some(FollowFrame)

\* a label-5 message whose payload is [0, startCode, c1..cN]
IsDmxPacket ==
    /\ input.kind = "good"
    /\ input.label = ENTTEC_LABEL_DMX_RECEIVED
    /\ Len(input.payload) >= 2
    /\ input.payload[1] = 0

ChannelCount == Len(input.payload) - 2

\* C7 Channel extraction bounds: for a label-5 message with payload
\* [0, startCode, c1..cN], read_dmx_channel(k) is c_k when 1 <= k <= N and
\* None when k > N.
ChannelExtractionBounds ==
    (/\ IsDmxPacket
     /\ Len(calls) >= 1
     /\ FirstCall.op = "read_dmx_channel")
    => LET k == FirstCall.arg IN
       /\ (1 <= k /\ k <= ChannelCount)
              => FirstCall.value = Some(input.payload[2 + k])
       /\ k > ChannelCount => FirstCall.value = None

\* channel 1 differs from the start code and was returned
ChannelExtractionBoundsWitness ==
    /\ IsDmxPacket
    /\ ChannelCount >= 1
    /\ input.payload[2] = ENTTEC_END_DELIMITER
    /\ input.payload[3] = 1
    /\ Len(calls) >= 1
    /\ FirstCall.op = "read_dmx_channel"
    /\ FirstCall.arg = 1
    /\ FirstCall.value = Some(1)

\* C8 Presence derivation: get_presence is true exactly when channel 1 of the
\* message read is greater than 0, false exactly when it is 0, and None
\* exactly when the extraction is None.
PresenceDerivation ==
    \A n \in 1..Len(calls) :
        calls[n].op = "get_presence" =>
            LET c == calls[n]
                extracted == ExtractChannel(c.msg, 1)
            IN
            /\ c.presence = Some(TRUE)
                   <=> (extracted # None /\ extracted[1] > 0)
            /\ c.presence = Some(FALSE) <=> extracted = Some(0)
            /\ c.presence = None <=> extracted = None
            /\ c.presence \in {None, Some(TRUE), Some(FALSE)}

\* channel 1 was 0 and presence came out false, not None
PresenceDerivationWitness ==
    /\ IsDmxPacket
    /\ ChannelCount >= 1
    /\ input.payload[3] = 0
    /\ Len(calls) >= 1
    /\ FirstCall.op = "get_presence"
    /\ FirstCall.presence = Some(FALSE)

----------------------------------------------------------------------------
\* Claims on the tree search (checked under SpecResolver)

\* every JSON object of a tree, at any depth
RECURSIVE NodesOf(_)
NodesOf(node) ==
    IF ~node.dict THEN {}
    ELSE {node} \cup UNION {NodesOf(node.CONTENTS[i]) : i \in 1..Len(node.CONTENTS)}

\* some node's FULL_PATH equals the path
ExistsInTree(t, path) == \E n \in NodesOf(t) : n.FULL_PATH = Some(path)

\* the candidates that exist in the tree, by their place in the list
ExistingAt(t, paths) == {i \in 1..Len(paths) : ExistsInTree(t, paths[i])}

Min(S) == CHOOSE x \in S : \A y \in S : x <= y

\* C9 Discovery search order: find_parameter_path returns the first
\* candidate, in list order, that some node's FULL_PATH equals, and None when
\* no candidate exists in the fetched tree.
DiscoverySearchOrder ==
    (/\ lookup # None
     /\ lookup[1].op = "find_parameter_path"
     /\ lookup[1].status = HTTP_OK)
    => LET paths == lookup[1].paths
           there == ExistingAt(tree, paths)
       IN IF there = {}
          THEN lookup[1].path = None
          ELSE lookup[1].path = Some(paths[Min(there)])

----------------------------------------------------------------------------
\* Claims on the bridge (checked under Spec)

\* the presence last read before completed iteration i, FALSE when none was
LastKnown(i) ==
    LET reads == {k \in 1..(i - 1) : cycles[k].read # None} IN
    IF reads = {} THEN FALSE
    ELSE cycles[CHOOSE k \in reads : \A j \in reads : j <= k].read[1]

\* C1 Idempotent resend: every completed iteration whose read gave None sent
\* exactly one message, to the parameter path, carrying the last known
\* presence (1 for true, 0 for false); so N such iterations in a row sent N
\* identical messages.
IdempotentResend ==
    \A i \in 1..Len(cycles) :
        cycles[i].read = None =>
            /\ cycles[i].msgs =
                   <<[path |-> param_path, value |-> IF LastKnown(i) THEN 1 ELSE 0]>>
            /\ (i > 1 /\ cycles[i - 1].read = None)
                   => cycles[i].msgs = cycles[i - 1].msgs

\* presence was read as true, then two iterations in a row read None and
\* each sent 1
IdempotentResendWitness ==
    /\ Len(cycles) >= 3
    /\ cycles[1].read = Some(TRUE)
    /\ cycles[2].read = None
    /\ cycles[3].read = None
    /\ cycles[2].msgs = cycles[3].msgs
    /\ Len(cycles[3].msgs) = 1
    /\ cycles[3].msgs[1].value = 1

\* C2 Cooperative termination: an interrupt that arrives while an iteration
\* is in progress lets that iteration finish (its read, its update and its
\* send), so once interrupted every iteration begun has done its send.
CooperativeTermination ==
    interrupted => Len(sent) = iterations

\* C3 Retry bound: retry_count is the number of discover() calls that have
\* failed; a call is made only while it is below max_retries (30), so the
\* call in progress is the 30th at most and there is no 31st; when every
\* call has failed setup returns False after exactly 30 of them, without
\* having looked for the path or opened the port, and main exits with 1.
RetryBound ==
    /\ retry_count <= max_retries
    /\ pc \in {"resolved", "get"} => retry_count < max_retries
    /\ osc_client = None =>
           /\ pc \in {"discovering", "resolved", "get", "setup_failed",
                      "exited", "aborted"}
           /\ lookup = None
           /\ connect_calls = 0
           /\ serial = "none"
           /\ pc = "setup_failed" => retry_count = max_retries
           /\ pc = "exited" => exit_code = Some(1)

\* thirty failed calls, and setup has returned False
RetryBoundWitness ==
    /\ pc = "setup_failed"
    /\ osc_client = None
    /\ retry_count = 30

\* C10 Transport failure is fatal and not retried: the port is opened only
\* after discovery succeeded and at most once; when that one attempt fails
\* setup returns False, the loop never runs and nothing is sent.
TransportFailureFatal ==
    /\ connect_calls <= 1
    /\ connect_calls = 1 => osc_client # None
    /\ serial # "none" => osc_client # None
    /\ (connect_calls = 1 /\ serial = "none") =>
           /\ pc \in {"setup_failed", "exited", "aborted"}
           /\ ~running
           /\ iterations = 0
           /\ sent = <<>>
           /\ pc = "exited" => exit_code = Some(1)

\* discovery succeeded, the one connect failed, the process ended with 1
TransportFailureFatalWitness ==
    /\ osc_client # None
    /\ connect_calls = 1
    /\ serial = "none"
    /\ pc = "exited"
    /\ exit_code = Some(1)

\* the process is over: main() returned, or an exception left it
Ended == pc \in {"exited", "aborted"}

\* setup() returned False: main() is about to return 1, or has returned
\* without a port ever being opened
SetupFailed == pc = "setup_failed" \/ (pc = "exited" /\ serial = "none")

\* setup() returned True: the port was opened and connect() returned
SetupSucceeded == serial # "none" /\ connect_calls = 1

\* C11 Process exit codes: the process ends with status 1 exactly when setup
\* failed (retries exhausted or connect failed), with status 0 when setup
\* succeeded and the loop was ended by an interrupt, and with no other status.
ProcessExitCodes ==
    Ended =>
        /\ exit_code \in {Some(0), Some(1)}
        /\ exit_code = Some(1) <=> SetupFailed
        /\ (SetupSucceeded /\ interrupted) => exit_code = Some(0)

----------------------------------------------------------------------------
\* Claims on the connection (checked under SpecSender)

\* the discover() calls made so far that were answered with 200
Answered200 ==
    {n \in 1..Len(calls) :
        calls[n].op = "discover" /\ calls[n].status = HTTP_OK}

\* the discover() calls made so far
Discovers == {n \in 1..Len(calls) : calls[n].op = "discover"}

\* C12 send_presence is a silent no-op while no client is bound: a call made
\* before any discover() was answered with 200 emits nothing and leaves the
\* connection as it was; a client is bound exactly from the first discover()
\* that received 200 on.
SendWithoutClient ==
    /\ \A n \in 1..Len(calls) :
           /\ calls[n].bound <=> \E k \in Answered200 : k < n
           /\ (calls[n].op = "send_presence" /\ ~calls[n].bound)
                  => calls[n].emitted = 0
    /\ osc_client # None <=> Answered200 # {}
    /\ Answered200 = {} => sent = <<>>
    /\ (\A n \in Discovers : calls[n].raised)
           => (ip_address = None /\ oscquery_url = None)

\* a send before discovery emitted nothing, the same send after a discover()
\* answered with 200 emitted one datagram
SendWithoutClientWitness ==
    /\ Len(calls) = 3
    /\ calls[1].op = "send_presence"
    /\ calls[1].emitted = 0
    /\ calls[2].op = "discover"
    /\ calls[2].status = HTTP_OK
    /\ calls[3].op = "send_presence"
    /\ calls[3].emitted = 1
    /\ sent = <<[path |-> calls[3].path, value |-> calls[3].value]>>

\* C13 discover() returns True exactly when the GET was answered with 200 and
\* False on no answer or any other status; a host name that does not resolve
\* decides nothing and never makes the call fail: the address is the
\* loopback address and the GET is made against it.
DiscoverOutcome ==
    /\ \A n \in Discovers : ~calls[n].raised
    /\ \A n \in Discovers :
           /\ calls[n].result <=> calls[n].status = HTTP_OK
           /\ calls[n].url =
                  Some(UrlOf(IF calls[n].resolves THEN HostAddress ELSE Loopback))
    /\ Discovers # {} =>
           LET last == calls[CHOOSE n \in Discovers : \A k \in Discovers : k <= n]
           IN /\ oscquery_url = last.url
              /\ ip_address = Some(last.url[1][2])
              /\ last.result => osc_client = ip_address

----------------------------------------------------------------------------
\* Claims on the bridge (checked under Spec), continued

\* the candidates setup() asks for
Candidates == {possible_paths[i] : i \in 1..Len(possible_paths)}

\* C14 Configuration fallback is non-fatal: once discovery has succeeded the
\* lookup is made; when it finds no candidate (the tree could not be fetched,
\* or holds none) the default path is kept, when it finds one that candidate
\* is the path; either way setup goes on to open the port, and every message
\* sent afterwards goes to that path.  The path is always the default or a
\* candidate.
ConfigurationFallback ==
    /\ param_path \in {PRESENCE_PARAM_PATH} \cup Candidates
    /\ \A i \in 1..Len(sent) : sent[i].path = param_path
    /\ lookup = None =>
           /\ param_path = PRESENCE_PARAM_PATH
           /\ connect_calls = 0
           /\ pc = "finding" => osc_client # None
    /\ lookup # None =>
           /\ osc_client # None
           /\ ~lookup[1].fetched => lookup[1].path = None
           /\ lookup[1].path = None => param_path = PRESENCE_PARAM_PATH
           /\ lookup[1].path # None =>
                  /\ lookup[1].path[1] \in Candidates
                  /\ param_path = lookup[1].path[1]
           /\ pc \notin {"discovering", "resolved", "get", "finding"}
           /\ pc \in {"setup_failed", "exited"} => connect_calls = 1

\* the tree could not be fetched, setup went on with the default path, the
\* port opened and the loop sent to the default path
ConfigurationFallbackWitness ==
    /\ lookup # None
    /\ ~lookup[1].fetched
    /\ lookup[1].path = None
    /\ serial = "open"
    /\ Len(sent) >= 1
    /\ sent[1].path = PRESENCE_PARAM_PATH

\* the loop of run() was entered and the process is over
LoopLeft == Ended /\ (iterations >= 1 \/ interrupted)

\* C15 Shutdown is idempotent and always safe: in whatever state the bridge
\* is (no port ever opened, port open, port already closed; running or not)
\* shutdown() raises nothing, leaves running False, closes the port when one
\* is open and leaves it alone otherwise, and a second call changes nothing
\* more; and whenever the loop was entered and the process has ended, by an
\* interrupt or by an exception, shutdown() has run: the running flag is
\* False and the port is closed.
ShutdownIdempotent ==
    LET once == shutdown(running, serial)
        twice == shutdown(once.running, once.serial)
    IN /\ once.running = FALSE
       /\ once.serial \in {"none", "closed"}
       /\ serial = "open" => once.serial = "closed"
       /\ serial # "open" => once.serial = serial
       /\ twice = once
       /\ LoopLeft =>
              /\ ~running
              /\ serial = "closed"
              /\ once = [running |-> running, serial |-> serial]

\* what may arrive during one read that holds no valid DMX message: nothing
\* (timeout), a truncated message, a bad end delimiter, a label other than
\* 5, a payload shorter than 2 bytes, a nonzero status byte, a payload that
\* ends before channel 1
NullSegments == Segments \ {PresentMsg, AbsentMsg, PresentMsg \o AbsentMsg}

\* the presence held when completed iteration i was over
HeldAfter(i) ==
    IF i < Len(cycles) THEN cycles[i + 1].held
    ELSE IF Len(cycles) < iterations THEN cycle_start.held
    ELSE current_presence

\* C16 The held presence changes only on a non-None read that differs from
\* it: an iteration whose read gave None leaves it as it was (None is never
\* taken for "absent"), an iteration whose read gave p leaves it at p; and
\* each of the seven kinds of invalid input makes the read give None.
PresenceChangesOnlyOnRead ==
    /\ \A i \in 1..Len(cycles) :
           /\ cycles[i].read = None => HeldAfter(i) = cycles[i].held
           /\ HeldAfter(i) # cycles[i].held =>
                  /\ cycles[i].read # None
                  /\ cycles[i].read[1] = HeldAfter(i)
    /\ pc \in {"read", "update"} => current_presence = cycle_start.held
    /\ pc \in {"send", "sleep"} =>
           current_presence =
               IF presence = None THEN cycle_start.held ELSE presence[1]
    /\ (pc = "read" /\ stream = <<>>) =>
           \A seg \in NullSegments : get_presence(serial, seg).presence = None

\* presence was read as true, the next read gave None, and the bridge still
\* holds true
PresenceChangesOnlyOnReadWitness ==
    /\ Len(cycles) = 2
    /\ pc = "loop"
    /\ cycles[1].read = Some(TRUE)
    /\ cycles[2].read = None
    /\ cycles[2].held = TRUE
    /\ current_presence = TRUE

\* C18 Update before send: every completed iteration sent exactly one
\* message, and when its read gave a presence p the message carries p (1 for
\* true, 0 for false), not the presence held before; every message sent
\* carries 0 or 1.
UpdateBeforeSend ==
    /\ \A i \in 1..Len(cycles) :
           /\ Len(cycles[i].msgs) = 1
           /\ cycles[i].read # None =>
                  cycles[i].msgs[1].value = (IF cycles[i].read[1] THEN 1 ELSE 0)
    /\ \A k \in 1..Len(sent) : sent[k].value \in {0, 1}

\* absent was held and present was read: 1 was sent; then present was held
\* and absent was read: 0 was sent
UpdateBeforeSendWitness ==
    /\ Len(cycles) >= 2
    /\ ~cycles[1].held
    /\ cycles[1].read = Some(TRUE)
    /\ cycles[1].msgs[1].value = 1
    /\ cycles[2].held
    /\ cycles[2].read = Some(FALSE)
    /\ cycles[2].msgs[1].value = 0

\* The lifecycle states of the bridge, by their place in the order
\* Uninitialized, Discovering, Connected, Running, ShuttingDown, Stopped:
\*   0 Uninitialized  constructed, discover() not yet called
\*   1 Discovering    the retry loop and the lookup of the parameter path
\*   2 Connected      opening the serial port, up to the call of run()
\*   3 Running        run() up to the end of the poll loop
\*   4 ShuttingDown   the except and finally clauses of run()
\*   5 Stopped        setup has failed, or the process is over
Lifecycle ==
    CASE pc = "discovering" /\ retry_count = 0 /\ ip_address = None -> 0
      [] pc = "discovering" /\ (retry_count > 0 \/ ip_address # None) -> 1
      [] pc \in {"resolved", "get", "finding"} -> 1
      [] pc \in {"connecting", "opened", "setup_done"} -> 2
      [] pc = "starting" \/ InTry -> 3
      [] pc \in {"except", "finally", "closing", "shut"} -> 4
      [] pc \in {"setup_failed", "exited", "aborted"} -> 5

\* one step of the lifecycle: the state stays, moves to the next one, or the
\* bridge stops
LifecycleStep ==
    \/ Lifecycle' = Lifecycle
    \/ Lifecycle' = Lifecycle + 1
    \/ Lifecycle' = 5

\* what holds in each lifecycle state
LifecycleRequires ==
    /\ serial # "none" => (osc_client # None /\ Lifecycle >= 2)
    /\ Lifecycle \in {2, 3, 4} => osc_client # None
    /\ Lifecycle = 3 =>
           /\ osc_client # None
           /\ connect_calls = 1
           /\ serial = "open"
           /\ running
    /\ Lifecycle = 4 => (osc_client # None /\ connect_calls = 1)
    /\ Lifecycle < 3 => (iterations = 0 /\ sent = <<>> /\ ~running)

\* C17 Lifecycle ordering: the bridge goes through Uninitialized,
\* Discovering, Connected, Running, ShuttingDown, Stopped in that order and
\* never backward (a fatal failure or an interrupt of setup goes straight to
\* Stopped); the port is opened only after a discover() has succeeded, and
\* the loop runs only after discovery and the connect have both succeeded.
LifecycleOrdering == [](LifecycleRequires) /\ [][LifecycleStep]_vars

\* the bridge went through every state: it discovered, connected, ran two
\* iterations, was interrupted, shut down and stopped with status 0
LifecycleOrderingWitness ==
    /\ pc = "exited"
    /\ exit_code = Some(0)
    /\ ip_address = Some(Loopback)
    /\ connect_calls = 1
    /\ Len(cycles) = 2
    /\ serial = "closed"

----------------------------------------------------------------------------
\* Claims on the tree search (checked under SpecResolver), continued

\* the JSON objects of a tree in depth-first order, parents before children
RECURSIVE Preorder(_)
RECURSIVE PreorderOfKids(_, _)
Preorder(node) ==
    IF ~node.dict THEN <<>>
    ELSE <<node>> \o PreorderOfKids(node.CONTENTS, 1)
PreorderOfKids(kids, i) ==
    IF i > Len(kids) THEN <<>>
    ELSE Preorder(kids[i]) \o PreorderOfKids(kids, i + 1)

\* the nodes whose FULL_PATH is the path, in depth-first order
MatchesOf(t, path) ==
    SelectSeq(Preorder(t), LAMBDA n : n.FULL_PATH = Some(path))

\* the value a node carries, a sequence of one element unwrapped
ValueOfNode(node) ==
    LET val == IF node.value # NoneVal THEN node.value ELSE node.VALUE IN
    IF val.t = "list" /\ Len(val.v) = 1 THEN IntVal(val.v[1]) ELSE val

\* C19 Tree search: _search_tree returns the value of the first node, in
\* depth-first order, whose FULL_PATH equals the target (a sequence of one
\* element unwrapped), and None only when no node of the tree matches.
TreeSearchFirstMatch ==
    (lookup # None /\ lookup[1].op = "search_tree")
    => LET matches == MatchesOf(tree, lookup[1].paths[1]) IN
       /\ matches # <<>> => lookup[1].val = ValueOfNode(matches[1])
       /\ lookup[1].val = NoneVal => matches = <<>>

----------------------------------------------------------------------------
\* Claims on the receiver (checked under SpecReceiver), continued

\* what the line had still to deliver when call n was made
BeforeCall(n) == IF n = 1 THEN StreamOf(input) ELSE calls[n - 1].after

\* the number of bytes and pauses call n used up
UsedBy(n) == Len(BeforeCall(n)) - Len(calls[n].after)

\* what call n used up: the front of what was still to deliver
ConsumedBy(n) == SubSeq(BeforeCall(n), 1, UsedBy(n))

\* s ends with the bytes 0x7E, label, lenLo, lenHi, payload, 0xE7 and
\* lenLo + 256 * lenHi is the length of the payload; in front of them there
\* are only bytes that are not a start delimiter
EndsWithFrame(s, label, payload) ==
    LET at == Len(s) - (Len(payload) + 5) IN
    /\ at >= 0
    /\ s[at + 1] = ENTTEC_START_DELIMITER
    /\ s[at + 2] = label
    /\ s[at + 3] + 256 * s[at + 4] = Len(payload)
    /\ SubSeq(s, at + 5, at + 4 + Len(payload)) = payload
    /\ s[Len(s)] = ENTTEC_END_DELIMITER
    /\ \A i \in 1..at : s[i] \in (0..255) \ {ENTTEC_START_DELIMITER}

\* C20 Decoder soundness: whatever the line delivers and however many calls
\* are made, each call uses up a front part of what the line had still to
\* deliver and leaves the rest untouched for the next call, so every byte is
\* used by one call at most and in the order of the line; and every message
\* (label, payload) returned is the run 0x7E, label, lenLo, lenHi, payload,
\* 0xE7 at the end of what its call used up, with lenLo + 256 * lenHi the
\* length of the payload.
DecoderSoundness ==
    /\ \A n \in 1..Len(calls) :
           /\ UsedBy(n) >= 0
           /\ calls[n].after =
                  SubSeq(BeforeCall(n), UsedBy(n) + 1, Len(BeforeCall(n)))
           /\ calls[n].msg # None =>
                  EndsWithFrame(ConsumedBy(n), calls[n].msg[1].label,
                                calls[n].msg[1].data)
    /\ stream = IF calls = <<>> THEN StreamOf(input)
                ELSE calls[Len(calls)].after

\* noise, then a message of 257 bytes (length bytes 1 and 1), then a second
\* message: two calls returned the two messages and the line is used up
DecoderSoundnessWitness ==
    /\ input.kind = "good"
    /\ input.lead # <<>>
    /\ Len(input.payload) = 257
    /\ input.follow # <<>>
    /\ Len(calls) = 2
    /\ calls[1].msg = Some([label |-> input.label, data |-> input.payload])
    /\ UsedBy(1) = Len(input.lead) + 257 + 5
    /\ calls[2].msg = Some(FollowFrame)
    /\ UsedBy(2) = Len(FollowFrame.data) + 5
    /\ stream = <<>>

----------------------------------------------------------------------------
\* Claims on the bridge (checked under Spec), continued

\* no read of the loop has given a presence yet: not in a completed
\* iteration, and not in the one in progress
NoReadingYet ==
    /\ \A k \in 1..Len(cycles) : cycles[k].read = None
    /\ presence = None

\* C21 Initial presence: the bridge is constructed holding "absent", so as
\* long as no read has given a presence it holds false, and every iteration
\* completed before the first reading sent exactly one message, carrying 0,
\* to the parameter path.
InitialPresence ==
    /\ NoReadingYet =>
           /\ current_presence = FALSE
           /\ \A k \in 1..Len(sent) :
                  sent[k] = [path |-> param_path, value |-> 0]
    /\ \A i \in 1..Len(cycles) :
           (\A k \in 1..i : cycles[k].read = None) =>
               /\ ~cycles[i].held
               /\ cycles[i].msgs = <<[path |-> param_path, value |-> 0]>>

\* two iterations have run, neither read gave a presence, and 0 was sent
\* twice
InitialPresenceWitness ==
    /\ NoReadingYet
    /\ Len(cycles) = 2
    /\ pc = "loop"
    /\ sent = <<[path |-> param_path, value |-> 0],
                [path |-> param_path, value |-> 0]>>

====
